---- MODULE Spec2Model ----
(***************************************************************************)
(* Dependency extraction and reactive dependency resolution of             *)
(* ember-caluma (addon/lib/dependencies.js).                               *)
(*                                                                         *)
(* A string is a sequence of tokens; the token "." is the character '.',   *)
(* every other token is a run of characters without '.'.  An expression is *)
(* the AST the parser returns for the expression text; the empty text is   *)
(* the node EmptyExpression.                                               *)
(***************************************************************************)
EXTENDS Naturals, Sequences, FiniteSets

\* Largest number of rows a table field holds.
MaxRows == 2

----------------------------------------------------------------------------
(* Strings *)

Dot == "."
foo == <<"foo">>
bar == <<"bar">>
column == <<"column">>
barColumn == <<"bar", ".", "column">>
EmptyString == <<>>

\* `${a}.${b}`
TemplateDot(a, b) == a \o <<Dot>> \o b

\* String.prototype.split(sep)
RECURSIVE split(_, _)
split(s, sep) ==
  IF \E i \in 1..Len(s) : s[i] = sep
  THEN LET i == CHOOSE k \in 1..Len(s) :
                  s[k] = sep /\ \A j \in 1..(k - 1) : s[j] # sep
       IN <<SubSeq(s, 1, i - 1)>> \o split(SubSeq(s, i + 1, Len(s)), sep)
  ELSE <<s>>

----------------------------------------------------------------------------
(* Expression ASTs *)

Node(type, name, value, args) ==
  [type |-> type, name |-> name, value |-> value, args |-> args]

Literal(value) == Node("Literal", "", value, <<>>)
\* subject|name(args...): the subject is args[1]
Transform(name, args) == Node("FunctionCall", name, EmptyString, args)
Binary(left, right) == Node("BinaryExpression", "in", EmptyString, <<left, right>>)
EmptyExpression == Node("Empty", "", EmptyString, <<>>)

Answer(slug) == Transform("answer", <<Literal(slug)>>)
Mapby(subject, child) == Transform("mapby", <<subject, Literal(child)>>)

\* 'foo'|answer in 'bar'|answer|mapby('column')
Example == Binary(Answer(foo), Mapby(Answer(bar), column))

AnswerSlugs == {foo, bar, barColumn}
ParentSlugs == {foo, bar}
ChildSlugs == {column, foo}

Operands ==
  {Answer(s) : s \in AnswerSlugs}
    \cup {Mapby(Answer(p), c) : p \in ParentSlugs, c \in ChildSlugs}
    \cup {Mapby(Literal(bar), column),
          Mapby(Transform("other", <<Answer(bar)>>), column)}

Expressions ==
  {EmptyExpression} \cup Operands
    \cup {Binary(l, r) : l \in Operands, r \in Operands}

----------------------------------------------------------------------------
(* Documents and fields *)

DocumentId == "doc"
Rows == {"r1", "r2", "r3"}
DocSlugs == {foo, bar}
TableSlugs == {bar}

\* The fields of each row document.
RowFields ==
  [r \in Rows |-> IF r = "r1" THEN {column, foo}
                  ELSE IF r = "r2" THEN {column} ELSE {foo}]

Field(document, slug) == [document |-> document, slug |-> slug]
Undefined == [document |-> "undefined", slug |-> EmptyString]
Null == [document |-> "null", slug |-> EmptyString]

AbsentField == [present |-> FALSE, hasValue |-> FALSE, rows |-> <<>>]
NewField == [present |-> TRUE, hasValue |-> FALSE, rows |-> <<>>]

VARIABLES
  expression,        \* the expression at expressionPath
  fields,            \* document.fields: slug -> state of the field
  debug,             \* TRUE in a debug build, FALSE in a production build
  nestedParentsPath, \* TRUE iff options.nestedParentsPath names `parents`
  deps,              \* the property dependencies(expressionPath,
                     \*   { nestedParentsPath })
  parents            \* the property nestedDependencyParents(expressionPath)

vars == <<expression, fields, debug, nestedParentsPath, deps, parents>>

----------------------------------------------------------------------------
(* AST walker: every transform of the tree, the node before its arguments, *)
(* the arguments in order.                                                 *)

RECURSIVE getTransforms(_)
getTransforms(tree) ==
  LET walk[i \in 0..Len(tree.args)] ==
        IF i = 0 THEN <<>> ELSE walk[i - 1] \o getTransforms(tree.args[i])
  IN (IF tree.type = "FunctionCall"
      THEN <<[name |-> tree.name, args |-> tree.args]>>
      ELSE <<>>) \o walk[Len(tree.args)]

----------------------------------------------------------------------------
(* Dependency extractor *)

\* [...new Set(list)]: the first occurrence of every element, in order
uniqNoDedupe(list) == list
uniq(list) ==
  LET firsts == {i \in 1..Len(list) : \A j \in 1..(i - 1) : list[j] # list[i]}
      nth[k \in 1..Cardinality(firsts)] ==
        CHOOSE i \in firsts : Cardinality({j \in firsts : j < i}) = k - 1
  IN [k \in 1..Cardinality(firsts) |-> list[nth[k]]]

answerTransforms(allTransforms) ==
  SelectSeq(allTransforms, LAMBDA transform : transform.name = "answer")

mapbyTransformsAnySubject(allTransforms) ==
  SelectSeq(allTransforms, LAMBDA transform :
    /\ transform.name = "mapby"
    /\ transform.args[1].type = "FunctionCall")
mapbyTransforms(allTransforms) ==
  SelectSeq(allTransforms, LAMBDA transform :
    /\ transform.name = "mapby"
    /\ transform.args[1].type = "FunctionCall"
    /\ transform.args[1].name = "answer")

\* answerTransforms.map((transform) => transform.args[0].value)
answerSlugs(transforms) ==
  [i \in 1..Len(transforms) |-> transforms[i].args[1].value]

\* mapbyTransforms.map((transform) =>
\*   `${transform.args[0].args[0].value}.${transform.args[1].value}`)
mapbySlugs(transforms) ==
  [i \in 1..Len(transforms) |->
     TemplateDot(transforms[i].args[1].args[1].value,
                 transforms[i].args[2].value)]

dependencySlugsNestedFirst(allTransforms) ==
  mapbySlugs(mapbyTransforms(allTransforms))
    \o answerSlugs(answerTransforms(allTransforms))
dependencySlugs(allTransforms) ==
  answerSlugs(answerTransforms(allTransforms))
    \o mapbySlugs(mapbyTransforms(allTransforms))

getDependenciesFromJexl(expr) == uniq(dependencySlugs(getTransforms(expr)))

----------------------------------------------------------------------------
(* Field lookup *)

NoError == [kind |-> "none", slug |-> EmptyString, document |-> "",
            expression |-> EmptyExpression]
\* The assertion failure of findField: its message names the slug, the
\* document's uuid and the expression.
FieldNotFound(slug, document, expr) ==
  [kind |-> "FieldNotFound", slug |-> slug, document |-> document,
   expression |-> expr]
\* Reading a property of undefined.
TypeError == [kind |-> "TypeError", slug |-> EmptyString, document |-> "",
              expression |-> EmptyExpression]

\* document.findField(slug): the field of that slug, or undefined
documentFindField(document, slug) ==
  IF document = DocumentId
  THEN IF slug \in DocSlugs /\ fields[slug].present
       THEN Field(document, slug) ELSE Undefined
  ELSE IF document \in Rows /\ slug \in RowFields[document]
       THEN Field(document, slug) ELSE Undefined

\* assert(message, field): throws in a debug build, is stripped from a
\* production build
assertThrows(field) == debug /\ field = Undefined

findField(document, slug, expr) ==
  LET field == documentFindField(document, slug)
  IN [threw |-> assertThrows(field),
      error |-> IF assertThrows(field)
                THEN FieldNotFound(slug, document, expr) ELSE NoError,
      field |-> field,
      lookup |-> [document |-> document, slug |-> slug]]

\* field.value of a field of the document
fieldValue(field) ==
  IF field.document = DocumentId /\ field.slug \in DocSlugs
  THEN fields[field.slug] ELSE AbsentField

----------------------------------------------------------------------------
(* Resolver: the getter of the computed property *)

Min(S) == CHOOSE x \in S : \A y \in S : x <= y

RECURSIVE concat(_)
concat(lists) ==
  IF lists = <<>> THEN <<>> ELSE Head(lists) \o concat(Tail(lists))

\* Array.prototype.flatMap: the callback's arrays, flattened one level
flattenUnique(chunks) == uniq(concat(chunks))
flatten(chunks) == concat(chunks)

\* .filter(Boolean)
filterBoolean(list) ==
  SelectSeq(list, LAMBDA field : field # Null /\ field # Undefined)

\* [field, ...rowFields]
nestedFieldsWithoutParent(field, rowFields) == rowFields
nestedFields(field, rowFields) == <<field>> \o rowFields

Returned(chunk, lookups) ==
  [threw |-> FALSE, error |-> NoError, chunk |-> chunk, lookups |-> lookups]
Thrown(error, lookups) ==
  [threw |-> TRUE, error |-> error, chunk |-> <<>>, lookups |-> lookups]

\* field.value.map((row) => findField(row, nestedSlug, expression))
mapRows(field, nestedSlug, expr, lookups) ==
  LET rows == fieldValue(field).rows
      found == [i \in 1..Len(rows) |-> findField(rows[i], nestedSlug, expr)]
      thrown == {i \in 1..Len(rows) : found[i].threw}
  IN IF thrown # {}
     THEN Thrown(found[Min(thrown)].error,
                 lookups \o [i \in 1..Min(thrown) |-> found[i].lookup])
     ELSE Returned(nestedFields(field, [i \in 1..Len(rows) |-> found[i].field]),
                   lookups \o [i \in 1..Len(rows) |-> found[i].lookup])

\* The flatMap callback for one dependency slug.
resolveSlug(slug, expr, only) ==
  LET parts == split(slug, Dot)
      fieldSlug == parts[1]
      nestedSlug == IF Len(parts) >= 2 THEN parts[2] ELSE EmptyString
      \* nestedSlug is truthy: neither null nor the empty string
      nested == Len(parts) >= 2 /\ nestedSlug # EmptyString
      found == findField(DocumentId, fieldSlug, expr)
      field == found.field
  IN IF only /\ ~nested THEN Returned(<<Null>>, <<>>)
     ELSE IF found.threw THEN Thrown(found.error, <<found.lookup>>)
     ELSE IF ~only /\ nested
          THEN IF field = Undefined THEN Thrown(TypeError, <<found.lookup>>)
               ELSE IF fieldValue(field).hasValue
                    THEN mapRows(field, nestedSlug, expr, <<found.lookup>>)
                    ELSE Returned(<<field>>, <<found.lookup>>)
          ELSE Returned(<<field>>, <<found.lookup>>)

Computation(status, slugs, chunks, error, lookups) ==
  [status |-> status, rowsChanged |-> FALSE, slugs |-> slugs,
   chunks |-> chunks, fields |-> filterBoolean(flatten(chunks)),
   error |-> error, lookups |-> lookups]

\* The function given to computed(): a fresh resolution of the expression
\* against the document.
getter(expr, only) ==
  IF expr = EmptyExpression
  THEN Computation("cached", <<>>, <<>>, NoError, <<>>)
  ELSE LET slugs == getDependenciesFromJexl(expr)
           each == [i \in 1..Len(slugs) |-> resolveSlug(slugs[i], expr, only)]
           thrown == {i \in 1..Len(slugs) : each[i].threw}
       IN IF thrown # {}
          THEN Computation("threw", slugs, <<>>, each[Min(thrown)].error,
                 concat([i \in 1..Min(thrown) |-> each[i].lookups]))
          ELSE Computation("cached", slugs,
                 [i \in 1..Len(slugs) |-> each[i].chunk], NoError,
                 concat([i \in 1..Len(slugs) |-> each[i].lookups]))

----------------------------------------------------------------------------
(* The computed properties and their dependent keys *)

\* A property that holds no value: never read, or invalidated.
NotComputed(rowsChanged) ==
  [status |-> "none", rowsChanged |-> rowsChanged, slugs |-> <<>>,
   chunks |-> <<>>, fields |-> <<>>, error |-> NoError, lookups |-> <<>>]

\* nestedParentsPath ? [`${nestedParentsPath}.@each.value`] : []
nestedTriggersNone(path) == {}
nestedTriggers(path) == IF path THEN {"parents.@each.value"} ELSE {}

\* The fields `parents.@each.value` watches: the elements of `parents`.
watchedParents ==
  LET fresh == getter(expression, TRUE)
  IN IF fresh.status = "cached"
     THEN {fresh.fields[i] : i \in 1..Len(fresh.fields)} ELSE {}

\* A change of a key every property depends on: document.fields.[] or
\* expressionPath.
invalidate(property) == NotComputed(FALSE)

\* field.value was set on a field of the document.
valueChanged(field, property, triggers) ==
  IF "parents.@each.value" \in triggers /\ field \in watchedParents
  THEN NotComputed(property.status = "cached")
  ELSE property

\* Reading a property: the cached value, or the getter's result.  A getter
\* that throws caches nothing.
read(property, only) ==
  IF property.status = "cached" THEN property
  ELSE [getter(expression, only) EXCEPT !.rowsChanged = property.rowsChanged]

Init ==
  /\ expression = EmptyExpression
  /\ fields = [s \in DocSlugs |-> AbsentField]
  /\ debug \in BOOLEAN
  /\ nestedParentsPath \in BOOLEAN
  /\ deps = NotComputed(FALSE)
  /\ parents = NotComputed(FALSE)

SetExpression(expr) ==
  /\ expr # expression
  /\ expression' = expr
  /\ deps' = invalidate(deps)
  /\ parents' = invalidate(parents)
  /\ UNCHANGED <<fields, debug, nestedParentsPath>>

AddField(slug) ==
  /\ ~fields[slug].present
  /\ fields' = [fields EXCEPT ![slug] = NewField]
  /\ deps' = invalidate(deps)
  /\ parents' = invalidate(parents)
  /\ UNCHANGED <<expression, debug, nestedParentsPath>>

RemoveField(slug) ==
  /\ fields[slug].present
  /\ fields' = [fields EXCEPT ![slug] = AbsentField]
  /\ deps' = invalidate(deps)
  /\ parents' = invalidate(parents)
  /\ UNCHANGED <<expression, debug, nestedParentsPath>>

SetValue(slug, rows) ==
  /\ fields' = [fields EXCEPT ![slug] =
                  [present |-> TRUE, hasValue |-> TRUE, rows |-> rows]]
  /\ deps' = valueChanged(Field(DocumentId, slug), deps,
                          nestedTriggers(nestedParentsPath))
  /\ parents' = valueChanged(Field(DocumentId, slug), parents,
                             nestedTriggers(FALSE))
  /\ UNCHANGED <<expression, debug, nestedParentsPath>>

AddRow(slug, row) ==
  /\ fields[slug].present
  /\ Len(fields[slug].rows) < MaxRows
  /\ \A i \in 1..Len(fields[slug].rows) : fields[slug].rows[i] # row
  /\ SetValue(slug, Append(fields[slug].rows, row))

RemoveRow(slug, i) ==
  /\ fields[slug].present
  /\ i \in 1..Len(fields[slug].rows)
  /\ SetValue(slug, [k \in 1..(Len(fields[slug].rows) - 1) |->
                       IF k < i THEN fields[slug].rows[k]
                       ELSE fields[slug].rows[k + 1]])

ReadDependencies ==
  /\ deps' = read(deps, FALSE)
  /\ UNCHANGED <<expression, fields, debug, nestedParentsPath, parents>>

ReadNestedDependencyParents ==
  /\ parents' = read(parents, TRUE)
  /\ UNCHANGED <<expression, fields, debug, nestedParentsPath, deps>>

Next ==
  \/ \E expr \in Expressions : SetExpression(expr)
  \/ \E slug \in DocSlugs : AddField(slug)
  \/ \E slug \in DocSlugs : RemoveField(slug)
  \/ \E slug \in TableSlugs, row \in Rows : AddRow(slug, row)
  \/ \E slug \in TableSlugs, i \in 1..MaxRows : RemoveRow(slug, i)
  \/ ReadDependencies
  \/ ReadNestedDependencyParents

Spec == Init /\ [][Next]_vars

----------------------------------------------------------------------------
(* What an expression reads, taken from the tree itself *)

Elements(list) == {list[i] : i \in 1..Len(list)}
Count(x, list) == Cardinality({i \in 1..Len(list) : list[i] = x})
IndexOf(x, list) == Min({i \in 1..Len(list) : list[i] = x})

RECURSIVE SubNodes(_)
SubNodes(tree) ==
  {tree} \cup UNION {SubNodes(tree.args[i]) : i \in 1..Len(tree.args)}

IsAnswer(node) == node.type = "FunctionCall" /\ node.name = "answer"
IsMapby(node) == node.type = "FunctionCall" /\ node.name = "mapby"

\* The slugs read by an answer transform.
AnswerReads(expr) == {n.args[1].value : n \in {m \in SubNodes(expr) : IsAnswer(m)}}
\* <<parent, child>> of every mapby applied to an answer read.
NestedReads(expr) ==
  {<<n.args[1].args[1].value, n.args[2].value>> :
     n \in {m \in SubNodes(expr) : IsMapby(m) /\ IsAnswer(m.args[1])}}
\* The mapby transforms whose subject is not an answer read.
OtherMapbys(expr) == {m \in SubNodes(expr) : IsMapby(m) /\ ~IsAnswer(m.args[1])}

Properties == {<<deps, FALSE>>, <<parents, TRUE>>}

\* The property has run its getter since the expression last changed.
Computed(property) == property.status # "none"
\* The property holds the list its getter returns for the current
\* expression and document.
Current(property, only) ==
  /\ property.status = "cached"
  /\ property = [getter(expression, only) EXCEPT
                   !.rowsChanged = property.rowsChanged]

----------------------------------------------------------------------------
(* Claims *)

\* C1 (as stated): for 'foo'|answer in 'bar'|answer|mapby('column'),
\* getDependenciesFromJexl returns exactly 'foo' followed by 'bar.column'.
C1_ExampleTwoIdentifiers ==
  \A pr \in Properties :
    (expression = Example /\ Computed(pr[1]))
      => pr[1].slugs = <<foo, TemplateDot(bar, column)>>

\* C1 (amended): for 'foo'|answer in 'bar'|answer|mapby('column'),
\* getDependenciesFromJexl returns exactly 'foo', 'bar', 'bar.column', in
\* this order: the parent of the mapby is also a direct identifier.
C1_ExampleThreeIdentifiers ==
  \A pr \in Properties :
    (expression = Example /\ Computed(pr[1]))
      => pr[1].slugs = <<foo, bar, TemplateDot(bar, column)>>

C1_Witness == expression = Example /\ Computed(deps) /\ Len(deps.slugs) = 3

\* C2: in default mode an identifier the resolver reads as parent.child
\* contributes the parent field followed by the child field of every row,
\* in row order (n + 1 fields), when the parent has n >= 1 rows that each
\* contain the child; it contributes the parent field alone when the
\* parent has zero rows or no value.
C2_NestedContribution ==
  Current(deps, FALSE) =>
    \A i \in 1..Len(deps.slugs) :
      LET parts == split(deps.slugs[i], Dot)
          parent == parts[1]
          child == parts[2]
          rows == fields[parent].rows
      IN (Len(parts) >= 2 /\ child # EmptyString /\ parent \in DocSlugs) =>
           /\ (/\ Len(rows) >= 1
               /\ \A k \in 1..Len(rows) : child \in RowFields[rows[k]])
                => /\ Len(deps.chunks[i]) = Len(rows) + 1
                   /\ deps.chunks[i] =
                        <<Field(DocumentId, parent)>>
                          \o [k \in 1..Len(rows) |-> Field(rows[k], child)]
           /\ Len(rows) = 0 => deps.chunks[i] = <<Field(DocumentId, parent)>>

C2_Witness ==
  /\ Current(deps, FALSE)
  /\ expression = Mapby(Answer(bar), column)
  /\ fields[bar].rows = <<"r2", "r1">>
  /\ deps.chunks[2] =
       <<Field(DocumentId, bar), Field("r2", column), Field("r1", column)>>

\* C3: nestedDependencyParents returns exactly the fields that are the
\* parent table field of some mapby-over-answer of the expression: no field
\* that is only read through answer, and no child field of a row.
C3_OnlyMapbyParents ==
  Current(parents, TRUE) =>
    Elements(parents.fields) =
      {documentFindField(DocumentId, nr[1]) : nr \in NestedReads(expression)}
        \ {Undefined}

\* The slugs the expression reads that the document does not hold, and the
\* mapbys whose child slug a row of their parent does not hold.
MissingInDocument ==
  {s \in AnswerReads(expression) : documentFindField(DocumentId, s) = Undefined}
MissingInRows ==
  {nr \in NestedReads(expression) :
     /\ nr[1] \in DocSlugs
     /\ fields[nr[1]].present
     /\ \E k \in 1..Len(fields[nr[1]].rows) :
          documentFindField(fields[nr[1]].rows[k], nr[2]) = Undefined}

\* C4: in default mode, whenever a slug read by the expression is absent
\* from the document, or the child slug of a mapby is absent from a row of
\* its parent, resolution ends in a FieldNotFound error naming an absent
\* slug, the document and the expression; no field list is returned.
C4_MissingFieldThrows ==
  LET result == getter(expression, FALSE)
  IN (/\ Computed(deps)
      /\ deps = [result EXCEPT !.rowsChanged = deps.rowsChanged]
      /\ MissingInDocument \cup MissingInRows # {})
       => /\ deps.status = "threw"
          /\ deps.error.kind = "FieldNotFound"
          /\ deps.error.expression = expression
          /\ \/ deps.error.slug \in MissingInDocument
             \/ \E nr \in MissingInRows : deps.error.slug = nr[2]

C6_NoDuplicateIdentifiers ==
  \A pr \in Properties :
    Computed(pr[1]) =>
      /\ \A i, j \in 1..Len(pr[1].slugs) :
           pr[1].slugs[i] = pr[1].slugs[j] => i = j
      /\ expression = Binary(Answer(foo), Answer(foo)) => pr[1].slugs = <<foo>>

C6_Witness ==
  /\ expression = Binary(Mapby(Answer(bar), column), Mapby(Answer(bar), column))
  /\ Computed(deps)
  /\ deps.slugs = <<bar, TemplateDot(bar, column)>>

Reaches(slug, field, only) ==
  LET parts == split(slug, Dot)
      nested == Len(parts) >= 2 /\ parts[2] # EmptyString
  IN IF field.document = DocumentId
     THEN field.slug = parts[1] /\ (only => nested)
     ELSE /\ ~only
          /\ nested
          /\ field.slug = parts[2]
          /\ parts[1] \in DocSlugs
          /\ fields[parts[1]].hasValue
          /\ field.document \in Elements(fields[parts[1]].rows)

C8_OtherMapbyIgnored ==
  \A pr \in Properties :
    Computed(pr[1]) =>
      Elements(pr[1].slugs) =
        AnswerReads(expression)
          \cup {TemplateDot(nr[1], nr[2]) : nr \in NestedReads(expression)}

C8_Witness ==
  /\ expression =
       Binary(Mapby(Transform("other", <<Answer(bar)>>), column), Answer(foo))
  /\ OtherMapbys(expression) # {}
  /\ Computed(deps)
  /\ deps.slugs = <<bar, foo>>

\* C9: whenever the list holds parent.child of a mapby it also holds the
\* bare parent, and every bare identifier precedes every nested one; the
\* example yields 'foo', 'bar', 'bar.column'.
C9_BareBeforeNested ==
  \A pr \in Properties :
    Computed(pr[1]) =>
      /\ \A nr \in NestedReads(expression) :
           /\ nr[1] \in Elements(pr[1].slugs)
           /\ TemplateDot(nr[1], nr[2]) \in Elements(pr[1].slugs)
           /\ \A s \in AnswerReads(expression) :
                s # TemplateDot(nr[1], nr[2]) =>
                  IndexOf(s, pr[1].slugs)
                    < IndexOf(TemplateDot(nr[1], nr[2]), pr[1].slugs)
      /\ expression = Example
           => pr[1].slugs = <<foo, bar, TemplateDot(bar, column)>>

\* C10: the resolver looks an identifier up the way the extractor produced
\* it: every lookup in the document is by the whole slug of an answer
\* read, and every lookup in a row is by the whole child slug of a mapby, in
\* a row of that mapby's parent.
C10_LookupsByWholeSlug ==
  \A pr \in Properties :
    Computed(pr[1]) /\ pr[1] = [getter(expression, pr[2]) EXCEPT
                                  !.rowsChanged = pr[1].rowsChanged] =>
      \A i \in 1..Len(pr[1].lookups) :
        LET lookup == pr[1].lookups[i]
        IN IF lookup.document = DocumentId
           THEN lookup.slug \in AnswerReads(expression)
           ELSE \E nr \in NestedReads(expression) :
                  /\ lookup.slug = nr[2]
                  /\ nr[1] \in DocSlugs
                  /\ lookup.document \in Elements(fields[nr[1]].rows)

====
